---- MODULE Spec2Model ----
(***************************************************************************)
(* Model of the per-client session bridge of src/app.py: the registry      *)
(* active_sessions, the Socket.IO handlers start_stream / stop_stream /    *)
(* audio_data / disconnect, the background thread start_gladia_session ->  *)
(* connect_to_gladia_websocket -> run_forever, and the WebSocketApp        *)
(* callbacks on_message / on_error / on_close.                             *)
(*                                                                         *)
(* One attempt = one call of handle_start_stream = one background thread   *)
(* = at most one WebSocketApp object, so attempts, threads and upstream    *)
(* handles share their identifier.                                         *)
(***************************************************************************)
EXTENDS Integers, Sequences, FiniteSets, TLC

\* ------------------------------------------------------------------ bounds
\* Socket.IO session ids (request.sid) of the browser clients.
Clients == {"c1", "c2"}
\* Inputs over the whole run, in any mix: start_stream, stop_stream and
\* audio_data calls, upstream frames, and failures of the remote service (a failed handshake, a
\* connection that cannot be opened, a connection the remote end closes).
MaxInputs == 3

\* One identifier per start_stream call (= thread = handle).
Attempts == 1..MaxInputs

\* ------------------------------------------------------- python primitives
\* dict.get(key, default) on a dict modelled as a function over its keys.
Get(d, k, default) == IF k \in DOMAIN d THEN d[k] ELSE default

\* The empty dict {}.
EmptyDict == [k \in {} |-> 0]

\* Optional values: None is <<>>, a present value v is <<v>>.
None == <<>>
Some(v) == <<v>>
GetOpt(d, k) == IF k \in DOMAIN d THEN Some(d[k]) ELSE None

\* Truthiness of a Python str (a sequence of characters): non-empty.
Truthy(s) == Len(s) > 0

\* str.strip(): leading and trailing whitespace removed.
RECURSIVE LStrip(_)
LStrip(s) == IF s # <<>> /\ Head(s) = " " THEN LStrip(Tail(s)) ELSE s
RECURSIVE RStrip(_)
RStrip(s) == IF s # <<>> /\ s[Len(s)] = " " THEN RStrip(SubSeq(s, 1, Len(s) - 1)) ELSE s
Strip(s) == RStrip(LStrip(s))

\* base64.b64decode(s): the value of a character of the base64 alphabet
\* (only the characters the inputs below use), -1 for the padding '='.
B64Value(ch) ==
    CASE ch = "A" -> 0 [] ch = "D" -> 3 [] ch = "I" -> 8 [] ch = "J" -> 9
      [] ch = "Q" -> 16 [] ch = "U" -> 20 [] ch = "=" -> -1

\* The bytes of one group of four characters: 3 bytes, 2 with one '=' of
\* padding, 1 with two.
B64Group(q) ==
    LET v == [i \in 1..4 |-> B64Value(q[i])]
        n == v[1] * 262144 + v[2] * 4096
             + (IF v[3] < 0 THEN 0 ELSE v[3] * 64) + (IF v[4] < 0 THEN 0 ELSE v[4])
        b1 == n \div 65536
        b2 == (n \div 256) % 256
        b3 == n % 256
    IN  IF v[3] < 0 THEN <<b1>> ELSE IF v[4] < 0 THEN <<b1, b2>> ELSE <<b1, b2, b3>>

\* s decodes: whole groups of four, padding only at the end of the last one
\* (otherwise binascii.Error: Incorrect padding).
B64Valid(s) ==
    /\ Len(s) % 4 = 0
    /\ \A i \in 1..Len(s) :
           s[i] = "=" => /\ i > Len(s) - 2
                         /\ \A j \in i..Len(s) : s[j] = "="

RECURSIVE b64decode(_)
b64decode(s) ==
    IF s = <<>> THEN <<>> ELSE B64Group(SubSeq(s, 1, 4)) \o b64decode(SubSeq(s, 5, Len(s)))

\* ------------------------------------------------------------------ inputs
\* speaker_name values a browser sends in the start_stream config
\* ('' is the default of config.get('speaker_name', '')).
Labels == {<<>>, <<"A", "n", "n">>}

\* HTTP statuses for which response.raise_for_status() raises HTTPError.
HttpErrorCodes == {401, 500}

\* Raw upstream frames.  valid = json.loads succeeds; obj is the decoded dict.
Utt(fields) == [valid |-> TRUE, obj |-> [type |-> "transcript", data |-> fields]]
FrameMalformed == [valid |-> FALSE, obj |-> EmptyDict]
FrameHe ==
    Utt([is_final |-> FALSE,
         utterance |-> [text |-> <<"h", "e">>, speaker |-> 0, start |-> 1, end |-> 4]])
FrameSpeaker1 ==
    Utt([is_final |-> TRUE,
         utterance |-> [text |-> <<"h", "i">>, speaker |-> 1, start |-> 5, end |-> 6]])
FrameDefaults == Utt([utterance |-> [text |-> <<"o", "k">>]])
FrameEmptyText == Utt([is_final |-> TRUE, utterance |-> [text |-> <<>>, speaker |-> 0]])
FrameBlankText == Utt([is_final |-> TRUE, utterance |-> [text |-> <<" ">>, speaker |-> 0]])
FrameNoData == [valid |-> TRUE, obj |-> [type |-> "transcript"]]
FrameSpeechStart == [valid |-> TRUE, obj |-> [type |-> "speech_start"]]
FrameError == [valid |-> TRUE, obj |-> [type |-> "error"]]
Frames ==
    {FrameMalformed, FrameHe, FrameSpeaker1, FrameDefaults, FrameEmptyText,
     FrameBlankText, FrameNoData, FrameSpeechStart, FrameError}

\* The `data` argument of audio_data: a dict whose 'audio' key holds base64
\* text ("QUJD" is the bytes 65 66 67, "QQ==" the byte 65, "QQ" lacks its
\* padding), or a dict without the key.
AudioABC == [audio |-> <<"Q", "U", "J", "D">>]
AudioA == [audio |-> <<"Q", "Q", "=", "=">>]
AudioBadPadding == [audio |-> <<"Q", "Q">>]
AudioNoKey == EmptyDict
AudioData == {AudioABC, AudioA, AudioBadPadding, AudioNoKey}

\* ------------------------------------------------------------------- state
VARIABLES
    active_sessions,  \* the registry: client sid -> [config, ws]
    threads,          \* attempt -> the background thread of that start_stream
    ws,               \* attempt -> the WebSocketApp the thread created
    outbox,           \* client sid -> number of replies its handlers sent, by type
    emitted,          \* attempt -> what its thread sent with socketio.emit(..., room=)
    last_event,       \* client sid -> "absent" (never connected), "connected",
                      \* or its last command: "started", "stopped", "disconnected"
    inputs,           \* inputs consumed so far
    sent,             \* attempt -> the binary frames ws.send put on its connection
    audio_calls       \* client sid -> its audio_data calls: how many, and how
                      \* the latest one ended

vars ==
    <<active_sessions, threads, ws, outbox, emitted, last_event, inputs, sent,
      audio_calls>>

\* The 'ws' key of a registry entry that has none.
NoWs == 0

\* held is the frame on_message was last called with (`message`).
UnusedThread ==
    [client |-> "-", pc |-> "unused", status |-> 0, prev |-> NoWs,
     nrecv |-> 0, lastbad |-> 0, held |-> FrameMalformed]
\* A thread's emissions: how many error and transcript events it has sent, and
\* the latest event (every event is the latest one in the state it is sent in).
NothingEmitted == [error |-> 0, transcript |-> 0, last |-> [type |-> "none"]]
NoSocketApp == [created |-> FALSE, keep_running |-> FALSE, sock |-> "none"]
\* Nothing sent upstream yet; opcode is that of the latest frame.
NothingSent == [frames |-> 0, opcode |-> 0, last |-> <<>>]
\* No audio_data call yet; data is the payload the latest call read (the
\* handler reads it only once it has found a connected handle).
NoAudioCalls == [calls |-> 0, outcome |-> "none", data |-> EmptyDict]

Init ==
    /\ active_sessions = EmptyDict
    /\ threads = [a \in Attempts |-> UnusedThread]
    /\ ws = [a \in Attempts |-> NoSocketApp]
    /\ outbox = [c \in Clients |-> [stream_started |-> 0, stream_stopped |-> 0, error |-> 0]]
    /\ emitted = [a \in Attempts |-> NothingEmitted]
    /\ last_event = [c \in Clients |-> IF c = "c1" THEN "connected" ELSE "absent"]
    /\ inputs = 0
    /\ sent = [a \in Attempts |-> NothingSent]
    /\ audio_calls = [c \in Clients |-> NoAudioCalls]

\* ----------------------------------------------------------------- helpers
\* emit(type, {...}) inside a handler of client c: the reply goes to c.
Reply(box, c, type) == [box EXCEPT ![c][type] = @ + 1]

\* socketio.emit(e.type, {...}, room=e.room) in the thread of attempt a.
Emitted(log, a, e) == [log EXCEPT ![a][e.type] = @ + 1, ![a].last = e]

\* del active_sessions[c]
Del(reg, c) == [k \in DOMAIN reg \ {c} |-> reg[k]]

\* The dict handle_start_stream stores under 'config'.  Only speaker_name is
\* ever read back (by on_message); the other keys go to the thread as arguments.
Config(speaker_name) ==
    [speaker_name |-> speaker_name, partial_results |-> TRUE, languages |-> <<>>,
     code_switching |-> FALSE, custom_vocabulary |-> <<>>]

\* WebSocketApp.close(): keep_running = False, and the socket, if any, is closed.
WsClose(w) ==
    [w EXCEPT !.keep_running = FALSE,
              !.sock = IF @ = "connected" THEN "closed" ELSE @]

\* The handle stored in c's entry, when that handle is connected ("Streaming").
StreamingHandle(c) ==
    IF /\ c \in DOMAIN active_sessions
       /\ active_sessions[c].ws # NoWs
       /\ ws[active_sessions[c].ws].sock = "connected"
    THEN active_sessions[c].ws
    ELSE NoWs

\* One more input is taken from the environment, if the run's budget allows.
Input == inputs < MaxInputs /\ inputs' = inputs + 1

\* request.sid is a live Socket.IO connection: handle_connect has run for it
\* and handle_disconnect has not.
Connected(c) == last_event[c] \in {"connected", "started", "stopped"}

\* ------------------------------------------------------ client-facing handlers
\* Mutant: the handler replies only once the session exists, so nothing is
\* sent to the client when it returns.
handle_start_stream_no_reply(c, speaker_name) ==
    /\ Connected(c)
    /\ Input
    /\ \E a \in Attempts :
        /\ threads[a].pc = "unused"
        /\ \A b \in Attempts : b < a => threads[b].pc # "unused"
        /\ active_sessions' =
             IF c \in DOMAIN active_sessions
             THEN [active_sessions EXCEPT ![c].config = Some(Config(speaker_name))]
             ELSE (c :> [config |-> Some(Config(speaker_name)), ws |-> NoWs])
                  @@ active_sessions
        /\ threads' = [threads EXCEPT ![a] =
                         [UnusedThread EXCEPT !.client = c, !.pc = "post",
                                              !.prev = StreamingHandle(c)]]
    /\ outbox' = outbox
    /\ last_event' = [last_event EXCEPT ![c] = "started"]
    /\ UNCHANGED <<ws, emitted, sent, audio_calls>>

\* @socketio.on('start_stream')
handle_start_stream(c, speaker_name) ==
    /\ Connected(c)
    /\ Input
    /\ \E a \in Attempts :
        /\ threads[a].pc = "unused"
        /\ \A b \in Attempts : b < a => threads[b].pc # "unused"
        /\ active_sessions' =
             IF c \in DOMAIN active_sessions
             THEN [active_sessions EXCEPT ![c].config = Some(Config(speaker_name))]
             ELSE (c :> [config |-> Some(Config(speaker_name)), ws |-> NoWs])
                  @@ active_sessions
        /\ threads' = [threads EXCEPT ![a] =
                         [UnusedThread EXCEPT !.client = c, !.pc = "post",
                                              !.prev = StreamingHandle(c)]]
    /\ outbox' = Reply(outbox, c, "stream_started")
    /\ last_event' = [last_event EXCEPT ![c] = "started"]
    /\ UNCHANGED <<ws, emitted, sent, audio_calls>>

\* The teardown both handle_stop_stream and handle_disconnect perform:
\* close the stored WebSocketApp, if any, and delete the entry.
TeardownWs(c) ==
    IF c \in DOMAIN active_sessions /\ active_sessions[c].ws # NoWs
    THEN [ws EXCEPT ![active_sessions[c].ws] = WsClose(@)]
    ELSE ws

\* Mutant: the teardown closes the socket but forgets to delete the entry.
TeardownRegistry_keeps_entry(c) == active_sessions

TeardownRegistry(c) ==
    IF c \in DOMAIN active_sessions THEN Del(active_sessions, c) ELSE active_sessions

\* @socketio.on('stop_stream')
handle_stop_stream(c) ==
    /\ Connected(c)
    /\ Input
    /\ ws' = TeardownWs(c)
    /\ active_sessions' = TeardownRegistry(c)
    /\ outbox' = Reply(outbox, c, "stream_stopped")
    /\ last_event' = [last_event EXCEPT ![c] = "stopped"]
    /\ UNCHANGED <<threads, emitted, sent, audio_calls>>

\* @socketio.on('disconnect')
handle_disconnect(c) ==
    /\ Connected(c)
    /\ ws' = TeardownWs(c)
    /\ active_sessions' = TeardownRegistry(c)
    /\ last_event' = [last_event EXCEPT ![c] = "disconnected"]
    /\ UNCHANGED <<threads, outbox, emitted, inputs, sent, audio_calls>>

\* Mutant: the exception of a failed send is swallowed without telling the
\* client.
audio_send_error_silent(box, c) == box

\* handle_audio_data, except Exception: emit('error', {'message': 'Error
\* sending audio: ...'}) to the calling client.
audio_send_error(box, c) == Reply(box, c, "error")

\* ws.send(audio_bytes, opcode=0x2) on the connection of attempt h.
WsSend(log, h, audio_bytes) ==
    [log EXCEPT ![h] = [frames |-> @.frames + 1, opcode |-> 2, last |-> audio_bytes]]

\* @socketio.on('audio_data').  data is the event's payload; send_ok tells
\* whether the connection takes the frame (a connection that broke without
\* the socket having noticed makes ws.send raise).
handle_audio_data(c, data, send_ok) ==
    LET present == c \in DOMAIN active_sessions
        h == IF present THEN active_sessions[c].ws ELSE NoWs
        connected == h # NoWs /\ ws[h].sock = "connected"
        decodes == "audio" \in DOMAIN data /\ B64Valid(data.audio)
        outcome == IF ~present THEN "no_session"
                   ELSE IF ~connected THEN "not_connected"
                   ELSE IF decodes /\ send_ok THEN "sent"
                   ELSE "error"
    IN  /\ Connected(c)
        /\ Input
        /\ audio_calls' = [audio_calls EXCEPT ![c] =
                             [calls |-> @.calls + 1, outcome |-> outcome,
                              data |-> IF connected THEN data ELSE EmptyDict]]
        /\ sent' = IF outcome = "sent" THEN WsSend(sent, h, b64decode(data.audio)) ELSE sent
        /\ outbox' = IF outcome = "error" THEN audio_send_error(outbox, c) ELSE outbox
        /\ UNCHANGED <<active_sessions, threads, ws, emitted, last_event>>

\* ------------------------------------------------------- the background thread
\* Mutant: the HTTPError is caught by the generic handler, whose message
\* carries no status code.
start_gladia_session_http_error_generic(a, code) ==
    /\ threads[a].pc = "post"
    /\ Input
    /\ threads' = [threads EXCEPT ![a].pc = "done_http_error", ![a].status = code]
    /\ emitted' = Emitted(emitted, a,
                    [type |-> "error", room |-> threads[a].client,
                     message |-> "Failed to create session", status_code |-> None])
    /\ UNCHANGED <<active_sessions, ws, outbox, last_event, sent, audio_calls>>

\* start_gladia_session, except requests.exceptions.HTTPError: the POST to
\* /v2/live answered with an error status.
start_gladia_session_http_error(a, code) ==
    /\ threads[a].pc = "post"
    /\ Input
    /\ threads' = [threads EXCEPT ![a].pc = "done_http_error", ![a].status = code]
    /\ emitted' = Emitted(emitted, a,
                    [type |-> "error", room |-> threads[a].client,
                     message |-> "Failed to create session", status_code |-> Some(code)])
    /\ UNCHANGED <<active_sessions, ws, outbox, last_event, sent, audio_calls>>

\* start_gladia_session, except Exception: the POST itself failed (network).
start_gladia_session_exception(a) ==
    /\ threads[a].pc = "post"
    /\ Input
    /\ threads' = [threads EXCEPT ![a].pc = "done_exception"]
    /\ emitted' = Emitted(emitted, a,
                    [type |-> "error", room |-> threads[a].client,
                     message |-> "Failed to create session", status_code |-> None])
    /\ UNCHANGED <<active_sessions, ws, outbox, last_event, sent, audio_calls>>

\* The POST succeeded; connect_to_gladia_websocket builds the WebSocketApp and
\* stores it in the registry (under the existing entry, or a new {'ws': ws}).
connect_to_gladia_websocket(a) ==
    LET c == threads[a].client IN
    /\ threads[a].pc = "post"
    /\ ws' = [ws EXCEPT ![a] = [NoSocketApp EXCEPT !.created = TRUE]]
    /\ active_sessions' =
         IF c \in DOMAIN active_sessions
         THEN [active_sessions EXCEPT ![c].ws = a]
         ELSE (c :> [config |-> None, ws |-> a]) @@ active_sessions
    /\ threads' = [threads EXCEPT ![a].pc = "run_forever", ![a].status = 200]
    /\ UNCHANGED <<outbox, emitted, last_event, inputs, sent, audio_calls>>

\* Mutant: the error is emitted without room=, that is to every client.
on_error_broadcast(log, a) ==
    Emitted(log, a,
            [type |-> "error", room |-> "*",
             message |-> "str(error)", status_code |-> None])

\* on_error(ws, error)
on_error(log, a) ==
    Emitted(log, a,
            [type |-> "error", room |-> threads[a].client,
             message |-> "str(error)", status_code |-> None])

\* Mutant: on_close only logs; the entry stays in the registry.
on_close_keeps_entry(reg, a) == reg

\* on_close(ws, close_status_code, close_msg)
on_close(reg, a) ==
    IF threads[a].client \in DOMAIN reg THEN Del(reg, threads[a].client) ELSE reg

\* ws.run_forever(): keep_running = True, the connection opens, on_open runs.
run_forever_connect(a) ==
    /\ threads[a].pc = "run_forever"
    /\ ws' = [ws EXCEPT ![a].keep_running = TRUE, ![a].sock = "connected"]
    /\ threads' = [threads EXCEPT ![a].pc = "reading"]
    /\ UNCHANGED <<active_sessions, outbox, emitted, last_event, inputs, sent, audio_calls>>

\* ws.run_forever(): the connection cannot be opened; on_error, then on_close.
run_forever_fail(a) ==
    /\ threads[a].pc = "run_forever"
    /\ Input
    /\ ws' = [ws EXCEPT ![a].keep_running = FALSE]
    /\ emitted' = on_error(emitted, a)
    /\ active_sessions' = on_close(active_sessions, a)
    /\ threads' = [threads EXCEPT ![a].pc = "done_closed"]
    /\ UNCHANGED <<outbox, last_event, sent, audio_calls>>

\* The remote end closes the connection (cleanly, or with a transport error
\* that run_forever reports through on_error); the socket is closed.
upstream_close(a, with_error) ==
    /\ threads[a].pc = "reading"
    /\ ws[a].sock = "connected"
    /\ Input
    /\ ws' = [ws EXCEPT ![a].keep_running = FALSE, ![a].sock = "closed"]
    /\ emitted' = IF with_error THEN on_error(emitted, a) ELSE emitted
    /\ threads' = [threads EXCEPT ![a].pc = "peer_closed"]
    /\ UNCHANGED <<active_sessions, outbox, last_event, sent, audio_calls>>

\* run_forever's read loop finds the socket closed (by the remote end or by
\* WebSocketApp.close()), tears down, calls on_close and returns; the final pc
\* tells which side closed.
run_forever_exit(a) ==
    /\ \/ threads[a].pc = "reading" /\ ws[a].sock = "closed"
       \/ threads[a].pc = "peer_closed"
    /\ active_sessions' = on_close(active_sessions, a)
    /\ threads' = [threads EXCEPT ![a].pc = IF @ = "peer_closed" THEN "done_peer_closed"
                                                               ELSE "done_closed"]
    /\ UNCHANGED <<ws, outbox, emitted, last_event, inputs, sent, audio_calls>>

\* ------------------------------------------------------------------ on_message
\* The fields on_message extracts from a decoded transcript frame.
Extract(obj) ==
    LET data == Get(obj, "data", EmptyDict)
        utterance == Get(data, "utterance", EmptyDict)
    IN  [speaker |-> Get(utterance, "speaker", 0),
         text |-> Get(utterance, "text", <<>>),
         is_final |-> Get(data, "is_final", FALSE),
         start_time |-> GetOpt(utterance, "start"),
         end_time |-> GetOpt(utterance, "end")]

\* if text:
TextPasses(text) == Truthy(text)

\* The terminal client (src/cli.py on_message): text = ....strip(), and the
\* frame is dropped `if not text`.
cli_text_passes(text) == Truthy(Strip(text))

\* The frames for which on_message reaches socketio.emit('transcript', ...).
Forwarded(f) ==
    /\ f.valid
    /\ Get(f.obj, "type", "") = "transcript"
    /\ TextPasses(Extract(f.obj).text)

\* Mutant: the label is applied whatever the speaker index.
DisplayName_any_speaker(entry, speaker) ==
    LET config == IF entry.config = None THEN EmptyDict ELSE entry.config[1]
        stored_name == Get(config, "speaker_name", <<>>)
    IN  IF Truthy(stored_name) THEN Some(stored_name) ELSE None

\* display_name, from the entry found under client_sid.
DisplayName(entry, speaker) ==
    LET config == IF entry.config = None THEN EmptyDict ELSE entry.config[1]
        stored_name == Get(config, "speaker_name", <<>>)
    IN  IF speaker = 0 /\ Truthy(stored_name) THEN Some(stored_name) ELSE None

\* Mutant: the transcript is emitted without room=, that is to every client.
TranscriptEvent_broadcast(f, display_name, c, n) ==
    LET x == Extract(f.obj) IN
    [type |-> "transcript", room |-> "*", speaker |-> x.speaker, text |-> x.text,
     is_final |-> x.is_final, speaker_name |-> display_name,
     timestamp |-> x.start_time, end_time |-> x.end_time, seq |-> n]

\* socketio.emit('transcript', {...}, room=client_sid); seq records the
\* position on its handle of the frame the event was made from.
TranscriptEvent(f, display_name, c, n) ==
    LET x == Extract(f.obj) IN
    [type |-> "transcript", room |-> c, speaker |-> x.speaker, text |-> x.text,
     is_final |-> x.is_final, speaker_name |-> display_name,
     timestamp |-> x.start_time, end_time |-> x.end_time, seq |-> n]

\* Mutant: JSONDecodeError is not caught in on_message; the WebSocketApp
\* reports the callback's exception through on_error.
on_message_malformed_uncaught(a, f) ==
    /\ threads' = [threads EXCEPT ![a].nrecv = @ + 1, ![a].lastbad = threads[a].nrecv + 1,
                                  ![a].held = f]
    /\ emitted' = on_error(emitted, a)
    /\ UNCHANGED <<active_sessions, ws, outbox, last_event, sent, audio_calls>>

\* on_message, except json.JSONDecodeError: the frame is logged and dropped.
on_message_malformed(a, f) ==
    /\ threads' = [threads EXCEPT ![a].nrecv = @ + 1, ![a].lastbad = threads[a].nrecv + 1,
                                  ![a].held = f]
    /\ UNCHANGED <<active_sessions, ws, outbox, emitted, last_event, sent, audio_calls>>

\* on_message for a frame that decodes: nothing is emitted unless it is a
\* transcript with text; then `client_sid in active_sessions` is evaluated,
\* and without an entry the event goes out with speaker_name None.
on_message_decoded(a, f) ==
    LET c == threads[a].client
        n == threads[a].nrecv + 1
    IN  /\ UNCHANGED <<active_sessions, ws, outbox, last_event, sent, audio_calls>>
        /\ IF ~Forwarded(f)
           THEN /\ threads' = [threads EXCEPT ![a].nrecv = n, ![a].held = f]
                /\ UNCHANGED emitted
           ELSE IF c \in DOMAIN active_sessions
           THEN /\ threads' = [threads EXCEPT ![a].nrecv = n, ![a].held = f,
                                              ![a].pc = "on_message"]
                /\ UNCHANGED emitted
           ELSE /\ threads' = [threads EXCEPT ![a].nrecv = n, ![a].held = f]
                /\ emitted' = Emitted(emitted, a, TranscriptEvent(f, None, c, n))

\* run_forever reads one frame from the open socket and calls on_message.
on_message(a, f) ==
    /\ threads[a].pc = "reading"
    /\ ws[a].sock = "connected"
    /\ Input
    /\ IF f.valid THEN on_message_decoded(a, f) ELSE on_message_malformed(a, f)

\* on_message, after the membership test succeeded: active_sessions[client_sid]
\* is read (KeyError, caught by `except Exception`, when the entry has gone in
\* between) and the transcript is emitted.
on_message_emit(a) ==
    LET c == threads[a].client
        f == threads[a].held
    IN  /\ threads[a].pc = "on_message"
        /\ threads' = [threads EXCEPT ![a].pc = "reading"]
        /\ emitted' =
             IF c \in DOMAIN active_sessions
             THEN Emitted(emitted, a,
                    TranscriptEvent(f, DisplayName(active_sessions[c], Extract(f.obj).speaker),
                                    c, threads[a].nrecv))
             ELSE emitted
        /\ UNCHANGED <<active_sessions, ws, outbox, last_event, inputs, sent, audio_calls>>

\* ----------------------------------------------------------------- behaviours
Next ==
    \/ \E c \in Clients, speaker_name \in Labels : handle_start_stream(c, speaker_name)
    \/ \E c \in Clients : handle_stop_stream(c)
    \/ \E c \in Clients : handle_disconnect(c)
    \/ \E c \in Clients, data \in AudioData, send_ok \in BOOLEAN :
           handle_audio_data(c, data, send_ok)
    \/ \E a \in Attempts, code \in HttpErrorCodes : start_gladia_session_http_error(a, code)
    \/ \E a \in Attempts : start_gladia_session_exception(a)
    \/ \E a \in Attempts : connect_to_gladia_websocket(a)
    \/ \E a \in Attempts : run_forever_connect(a)
    \/ \E a \in Attempts : run_forever_fail(a)
    \/ \E a \in Attempts, f \in Frames : on_message(a, f)
    \/ \E a \in Attempts : on_message_emit(a)
    \/ \E a \in Attempts, with_error \in BOOLEAN : upstream_close(a, with_error)
    \/ \E a \in Attempts : run_forever_exit(a)

Spec == Init /\ [][Next]_vars

\* Two browsers are connected: handle_connect has run for both sids.
InitTwoClients ==
    /\ active_sessions = EmptyDict
    /\ threads = [a \in Attempts |-> UnusedThread]
    /\ ws = [a \in Attempts |-> NoSocketApp]
    /\ outbox = [c \in Clients |-> [stream_started |-> 0, stream_stopped |-> 0, error |-> 0]]
    /\ emitted = [a \in Attempts |-> NothingEmitted]
    /\ last_event = [c \in Clients |-> "connected"]
    /\ inputs = 0
    /\ sent = [a \in Attempts |-> NothingSent]
    /\ audio_calls = [c \in Clients |-> NoAudioCalls]

SpecTwoClients == InitTwoClients /\ [][Next]_vars

\* Client c1 is already Streaming: its start_stream (no speaker_name) has run,
\* the handshake succeeded, the handle of attempt 1 is stored and its
\* connection is open; inputs counts what happens from here on.
InitStreaming ==
    /\ active_sessions = ("c1" :> [config |-> Some(Config(<<>>)), ws |-> 1])
    /\ threads = [a \in Attempts |->
                    IF a = 1
                    THEN [UnusedThread EXCEPT !.client = "c1", !.pc = "reading",
                                              !.status = 200]
                    ELSE UnusedThread]
    /\ ws = [a \in Attempts |->
               IF a = 1
               THEN [created |-> TRUE, keep_running |-> TRUE, sock |-> "connected"]
               ELSE NoSocketApp]
    /\ outbox = [c \in Clients |->
                   [stream_started |-> IF c = "c1" THEN 1 ELSE 0,
                    stream_stopped |-> 0, error |-> 0]]
    /\ emitted = [a \in Attempts |-> NothingEmitted]
    /\ last_event = [c \in Clients |-> IF c = "c1" THEN "started" ELSE "absent"]
    /\ inputs = 0
    /\ sent = [a \in Attempts |-> NothingSent]
    /\ audio_calls = [c \in Clients |-> NoAudioCalls]

SpecStreaming == InitStreaming /\ [][Next]_vars

\* ------------------------------------------------------------------- claims
\* The attempts (threads, handles) started by client c.
HandlesOf(c) == {a \in Attempts : threads[a].client = c}

\* The upstream connection of attempt a is open.
Open(a) == ws[a].sock = "connected"

\* C1: for every client, at most one upstream handle is open at any time.
C1_AtMostOneOpenHandle ==
    \A c \in Clients : Cardinality({a \in HandlesOf(c) : Open(a)}) <= 1

\* C2: a handle opened by a start_stream that was issued while the client was
\* Streaming is open only once the handle that was streaming then is closed.
C2_RestartClosesPrevious ==
    \A a \in Attempts :
        (threads[a].prev # NoWs /\ Open(a)) => ~Open(threads[a].prev)

\* C3: after stop_stream or disconnect (and until a new start_stream) the
\* client has no registry entry and no open upstream handle.
C3_TeardownLeavesNothing ==
    \A c \in Clients :
        last_event[c] \in {"stopped", "disconnected"} =>
            /\ c \notin DOMAIN active_sessions
            /\ \A a \in HandlesOf(c) : ~Open(a)

\* A step in which client c's stop_stream handler runs: it is the only
\* handler that replies stream_stopped, and it does so on every path.
StopStep(c) == outbox'[c].stream_stopped # outbox[c].stream_stopped

\* A step in which client c's disconnect handler runs.
DisconnectStep(c) == Connected(c) /\ last_event'[c] = "disconnected"

\* C4 (as stated): a stop_stream or disconnect that follows a stop_stream
\* produces no further stream_stopped reply.
C4_NoDuplicateStreamStopped ==
    [][\A c \in Clients :
         last_event[c] = "stopped" =>
             outbox'[c].stream_stopped = outbox[c].stream_stopped]_vars

\* C4 (amended): a stop_stream or disconnect that arrives when the client has
\* no registry entry changes neither the registry nor any handle, thread or
\* thread emission; every teardown leaves the client without an entry; the
\* stop_stream still replies exactly one stream_stopped (so a second call
\* replies a second time) and the disconnect replies nothing.
C4_TeardownWithoutEntryIsNoOp ==
    [][\A c \in Clients :
         /\ (StopStep(c) \/ DisconnectStep(c)) => c \notin DOMAIN active_sessions'
         /\ ((StopStep(c) \/ DisconnectStep(c)) /\ c \notin DOMAIN active_sessions) =>
                /\ active_sessions' = active_sessions
                /\ ws' = ws
                /\ threads' = threads
                /\ emitted' = emitted
         /\ StopStep(c) =>
                outbox' = [outbox EXCEPT ![c].stream_stopped = @ + 1]
         /\ DisconnectStep(c) => outbox' = outbox]_vars

\* C4 witness: a second stop_stream has run while the client had no entry
\* (its only handshake is still in flight, so nothing can have re-created it).
C4_StoppedTwice ==
    \E c \in Clients :
        /\ outbox[c].stream_stopped = 2
        /\ outbox[c].stream_started = 1
        /\ \A a \in HandlesOf(c) : threads[a].pc = "post"
        /\ c \notin DOMAIN active_sessions

\* The client is Streaming: one of its upstream connections is open.
Streaming(c) == \E a \in HandlesOf(c) : Open(a)

\* C5: the registry entry of a client holds a handle exactly when the client
\* is Streaming, and the handle it holds is then an open one.
C5_HandleIffStreaming ==
    \A c \in Clients :
        LET held == c \in DOMAIN active_sessions /\ active_sessions[c].ws # NoWs
        IN  /\ held <=> Streaming(c)
            /\ held => Open(active_sessions[c].ws)

\* C6: an attempt whose handshake was answered with an error status never gets
\* an upstream handle, and its thread has emitted exactly one event: an error,
\* to its own client, carrying that status code.
C6_HttpErrorOneErrorNoHandle ==
    \A a \in Attempts :
        threads[a].pc = "done_http_error" =>
            /\ ~ws[a].created
            /\ ws[a].sock = "none"
            /\ emitted[a].error = 1
            /\ emitted[a].transcript = 0
            /\ emitted[a].last.type = "error"
            /\ emitted[a].last.room = threads[a].client
            /\ threads[a].status \in HttpErrorCodes
            /\ emitted[a].last.status_code = Some(threads[a].status)

\* C6 witness: a handshake was answered 401.
C6_Handshake401 ==
    \E a \in Attempts :
        /\ threads[a].pc = "done_http_error"
        /\ threads[a].status = 401
        /\ emitted[a].last.status_code = Some(401)

\* A step in which attempt a fails while Starting: the handshake fails (HTTP
\* error or exception) or run_forever cannot open the connection.
StartingFails(a) ==
    \/ threads[a].pc = "post" /\ threads'[a].pc \in {"done_http_error", "done_exception"}
    \/ threads[a].pc = "run_forever" /\ threads'[a].pc = "done_closed"

\* C7: a failure during Starting emits an error to the client and leaves the
\* registry without an entry for it.
C7_StartingFailureRemovesEntry ==
    [][\A a \in Attempts :
         StartingFails(a) =>
             /\ emitted'[a].error = emitted[a].error + 1
             /\ emitted'[a].last.type = "error"
             /\ threads[a].client \notin DOMAIN active_sessions']_vars

\* C8: no transcript event carries a text that is empty after trimming.
C8_BlankTextNeverForwarded ==
    \A a \in Attempts :
        emitted[a].last.type = "transcript" => Strip(emitted[a].last.text) # <<>>

\* A step in which the thread of attempt a reads a frame that does not decode.
MalformedStep(a) == threads'[a].lastbad # threads[a].lastbad

\* C9: reading a malformed frame changes nothing but the thread's own frame
\* counters: registry, sockets, replies and emissions are untouched, no other
\* thread moves, and the thread is back in its read loop on a socket that is
\* still open, where the next frame is handled as any other.
C9_MalformedFrameChangesNothing ==
    [][\A a \in Attempts :
         MalformedStep(a) =>
             /\ active_sessions' = active_sessions
             /\ ws' = ws
             /\ outbox' = outbox
             /\ emitted' = emitted
             /\ last_event' = last_event
             /\ threads[a].pc = "reading" /\ threads'[a].pc = "reading"
             /\ Open(a)
             /\ \A b \in Attempts \ {a} : threads'[b] = threads[b]]_vars

\* C9 witness: a transcript was delivered from a frame that arrived on the
\* same handle after a malformed one.
C9_DeliveredAfterMalformed ==
    \E a \in Attempts :
        /\ threads[a].lastbad > 0
        /\ emitted[a].last.type = "transcript"
        /\ emitted[a].last.seq > threads[a].lastbad

\* The custom label of client c's session: speaker_name of the config in its
\* registry entry, '' when there is no entry or no config.
SessionLabel(c) ==
    IF c \in DOMAIN active_sessions /\ active_sessions[c].config # None
    THEN active_sessions[c].config[1].speaker_name
    ELSE <<>>

\* A step in which the thread of attempt a emits a transcript event.
TranscriptStep(a) == emitted'[a].transcript # emitted[a].transcript

\* C10: every transcript event carries speaker_name = the session's label when
\* its speaker is 0 and that label is non-empty, and None otherwise.
C10_DisplayNameRule ==
    [][\A a \in Attempts :
         TranscriptStep(a) =>
             LET e == emitted'[a].last
                 label == SessionLabel(threads[a].client)
             IN  /\ e.type = "transcript"
                 /\ (e.speaker = 0 /\ label # <<>>) => e.speaker_name = Some(label)
                 /\ (e.speaker # 0 \/ label = <<>>) => e.speaker_name = None]_vars

\* C10 witness: an event of speaker 0 went out labelled with the session's
\* configured label.
C10_LabelledSpeaker0 ==
    \E a \in Attempts :
        /\ emitted[a].last.type = "transcript"
        /\ emitted[a].last.speaker = 0
        /\ emitted[a].last.speaker_name = Some(<<"A", "n", "n">>)
        /\ SessionLabel(threads[a].client) = <<"A", "n", "n">>

\* A step in which client c's audio_data handler runs.
AudioStep(c) == audio_calls'[c].calls # audio_calls[c].calls

C12_SendFailureReportedNoTransition ==
    [][\A c \in Clients :
         (AudioStep(c) /\ audio_calls'[c].outcome = "error") =>
             /\ outbox' = [outbox EXCEPT ![c].error = @ + 1]
             /\ active_sessions' = active_sessions
             /\ ws' = ws
             /\ threads' = threads
             /\ emitted' = emitted
             /\ sent' = sent
             /\ last_event' = last_event]_vars

\* C12 witness: a chunk that decodes was given to a connected handle, the send
\* failed, the client was told, and its entry still references the handle.
C12_SendFailedOnBrokenHandle ==
    \E c \in Clients :
        /\ audio_calls[c].outcome = "error"
        /\ audio_calls[c].data = AudioABC
        /\ outbox[c].error = 1
        /\ StreamingHandle(c) # NoWs
        /\ sent[StreamingHandle(c)].frames = 0

\* A step in which client c's start_stream handler runs: one more of the
\* client's threads exists.
StartStep(c) ==
    \E a \in Attempts :
        threads[a].pc = "unused" /\ threads'[a].pc # "unused" /\ threads'[a].client = c

\* C13: the start_stream handler replies stream_started in the very step in
\* which it starts the background thread, whose handshake is then still
\* unanswered; and every later handshake or connect failure of that thread
\* emits one error event to the client, which already has its stream_started.
C13_StartedBeforeHandshake ==
    [][/\ \A c \in Clients :
            StartStep(c) =>
                /\ outbox' = [outbox EXCEPT ![c].stream_started = @ + 1]
                /\ emitted' = emitted
                /\ \A a \in Attempts :
                       (threads[a].pc = "unused" /\ threads'[a].pc # "unused") =>
                           /\ threads'[a].pc = "post"
                           /\ ~ws'[a].created
       /\ \A a \in Attempts :
            StartingFails(a) =>
                /\ emitted'[a].error = emitted[a].error + 1
                /\ emitted'[a].last.type = "error"
                /\ emitted'[a].last.room = threads[a].client
                /\ emitted'[a].last.message \in {"Failed to create session", "str(error)"}
                /\ outbox[threads[a].client].stream_started >= 1]_vars

\* C13 witness: the client got stream_started, and afterwards the handshake
\* raised, or the connection could not be opened, and an error was emitted.
C13_StartedThenFailed ==
    \E a \in Attempts :
        /\ \/ threads[a].pc = "done_exception"
           \/ threads[a].pc = "done_closed" /\ ws[a].sock = "none"
        /\ emitted[a].error = 1
        /\ outbox[threads[a].client].stream_started = 1

\* A step in which the session of attempt a fails: its handshake or its
\* connect fails, its thread emits an error, or its on_close runs.
FailureStep(a) ==
    \/ StartingFails(a)
    \/ emitted'[a].error # emitted[a].error
    \/ /\ threads[a].pc \in {"reading", "peer_closed"}
       /\ threads'[a].pc \in {"done_closed", "done_peer_closed"}

\* C14: a failure of one client's session emits its error to that client
\* only, and leaves every other client's registry entry, connections,
\* threads, thread emissions and handler replies as they were.
C14_FailuresIsolated ==
    [][\A a \in Attempts :
         FailureStep(a) =>
             LET c == threads[a].client IN
             /\ emitted'[a].error # emitted[a].error =>
                    /\ emitted'[a].last.type = "error"
                    /\ emitted'[a].last.room = c
             /\ \A d \in Clients \ {c} :
                    /\ d \in DOMAIN active_sessions' <=> d \in DOMAIN active_sessions
                    /\ d \in DOMAIN active_sessions => active_sessions'[d] = active_sessions[d]
                    /\ outbox'[d] = outbox[d]
                    /\ \A b \in HandlesOf(d) :
                           /\ ws'[b] = ws[b]
                           /\ threads'[b] = threads[b]
                           /\ emitted'[b] = emitted[b]
                           /\ sent'[b] = sent[b]]_vars

\* C14 witness: one client's connection could not be opened and its error
\* went out, while another client's session is still registered and open.
C14_OtherSessionSurvives ==
    \E a, b \in Attempts :
        /\ threads[a].client # threads[b].client
        /\ threads[a].pc = "done_closed"
        /\ emitted[a].error = 1
        /\ threads[a].client \notin DOMAIN active_sessions
        /\ Open(b)
        /\ StreamingHandle(threads[b].client) = b

\* C15: every event a thread emits goes to the room of the client whose
\* start_stream created that thread's handle, and the step that emits a
\* transcript changes no other thread's emissions and no handler reply.
C15_TranscriptOnlyToOwner ==
    [][\A a \in Attempts :
         TranscriptStep(a) =>
             /\ emitted'[a].last.type = "transcript"
             /\ emitted'[a].last.room = threads[a].client
             /\ \A b \in Attempts \ {a} : emitted'[b] = emitted[b]
             /\ outbox' = outbox]_vars

\* C15 witness: two clients both have an open handle, and a transcript read on
\* the handle of one of them has been emitted.
C15_TranscriptWithTwoSessions ==
    \E a, b \in Attempts :
        /\ threads[a].client # threads[b].client
        /\ Open(a) /\ Open(b)
        /\ emitted[a].last.type = "transcript"
        /\ emitted[b].last.type = "none"

\* A step in which the thread of attempt a reads a frame from its connection.
ReadStep(a) == threads'[a].nrecv # threads[a].nrecv

\* The 'type' of the frames that are events rather than transcripts.
EventFrameTypes == {"speech_start", "speech_end", "error"}

\* C16: reading a voice-activity frame or an upstream error frame emits an
\* event to the client, and that event is not a transcript.
C16_EventFramesForwarded ==
    [][\A a \in Attempts :
         (/\ ReadStep(a)
          /\ threads'[a].held.valid
          /\ Get(threads'[a].held.obj, "type", "") \in EventFrameTypes) =>
             /\ emitted'[a] # emitted[a]
             /\ emitted'[a].last.type \notin {"none", "transcript"}
             /\ emitted'[a].transcript = emitted[a].transcript]_vars

\* The session of attempt a has ended in a failure: the handshake failed, the
\* connection could not be opened, or the remote end closed it (cleanly or
\* with a transport error).
TerminalFailure(a) ==
    \/ threads[a].pc \in {"done_http_error", "done_exception", "done_peer_closed"}
    \/ threads[a].pc = "done_closed" /\ ws[a].sock = "none"

\* C17: a session that has ended in a failure has emitted exactly one error
\* event, to its own client, with a message.
C17_OneErrorPerTerminalFailure ==
    \A a \in Attempts :
        TerminalFailure(a) =>
            /\ emitted[a].error = 1
            /\ emitted[a].last.type = "error" => emitted[a].last.room = threads[a].client

\* C18: a thread that has found its client's entry in the registry still
\* finds it when it reads it: the entry does not disappear between the
\* membership test of on_message and the lookup that follows.
C18_EntryStableBetweenCheckAndUse ==
    \A a \in Attempts :
        threads[a].pc = "on_message" => threads[a].client \in DOMAIN active_sessions

\* C19: once the remote end has closed or failed the connection of a
\* Streaming handle, that handle is closed and nothing blocks its thread from
\* running on_close; the on_close step leaves the client without a registry
\* entry; an entry only comes back through a start_stream (the handler, or the
\* thread it started storing its handle); and audio that arrives while the
\* client has no entry sends nothing and changes nothing.
C19_UpstreamCloseReachesClosed ==
    [][/\ \A a \in Attempts :
            /\ threads[a].pc = "peer_closed" =>
                   /\ ~Open(a)
                   /\ ENABLED run_forever_exit(a)
            /\ (threads[a].pc = "peer_closed" /\ threads'[a].pc # "peer_closed") =>
                   /\ threads'[a].pc = "done_peer_closed"
                   /\ ~Open(a)'
                   /\ threads[a].client \notin DOMAIN active_sessions'
       /\ \A c \in Clients :
            /\ (c \notin DOMAIN active_sessions /\ c \in DOMAIN active_sessions') =>
                   \E a \in Attempts :
                       /\ threads'[a].client = c
                       /\ threads[a].pc \in {"unused", "post"}
                       /\ threads'[a].pc \in {"post", "run_forever"}
            /\ (AudioStep(c) /\ c \notin DOMAIN active_sessions) =>
                   /\ audio_calls'[c].outcome = "no_session"
                   /\ sent' = sent
                   /\ outbox' = outbox
                   /\ active_sessions' = active_sessions
                   /\ ws' = ws
                   /\ threads' = threads
                   /\ emitted' = emitted]_vars

\* C19 witness: the client's only session was closed by the remote end (it
\* never stopped it), on_close has run, and an audio chunk then found no entry.
C19_AudioAfterUpstreamClose ==
    \E a \in Attempts :
        LET c == threads[a].client IN
        /\ threads[a].pc = "done_peer_closed"
        /\ HandlesOf(c) = {a}
        /\ outbox[c].stream_stopped = 0
        /\ last_event[c] = "started"
        /\ c \notin DOMAIN active_sessions
        /\ audio_calls[c].outcome = "no_session"
        /\ sent[a].frames = 0

\* A step in which on_message returns for the frame it was called with.
HandledStep(a) ==
    \/ ReadStep(a) /\ threads'[a].pc = "reading"
    \/ threads[a].pc = "on_message" /\ threads'[a].pc = "reading"

\* The utterance of a decoded frame ({} when the frame has none).
UtteranceOf(f) ==
    IF "data" \in DOMAIN f.obj /\ "utterance" \in DOMAIN f.obj.data
    THEN f.obj.data.utterance
    ELSE EmptyDict

\* C20: on_message, called with a transcript frame whose text is not empty,
\* emits exactly one transcript event, which carries the frame's text, its
\* speaker (0 when absent), its is_final (false when absent), its start as
\* timestamp and its end as end_time (null when absent); the frame "he" of
\* speaker 0 from 0.1 to 0.4, not final, yields just those values (times are
\* in tenths of a second).
C20_TranscriptTranslated ==
    [][\A a \in Attempts :
         LET f == threads'[a].held
             u == UtteranceOf(f)
             e == emitted'[a].last
         IN  (/\ HandledStep(a)
              /\ f.valid
              /\ "type" \in DOMAIN f.obj /\ f.obj.type = "transcript"
              /\ "text" \in DOMAIN u /\ u.text # <<>>) =>
                 /\ emitted'[a].transcript = emitted[a].transcript + 1
                 /\ e.type = "transcript"
                 /\ e.text = u.text
                 /\ e.speaker = (IF "speaker" \in DOMAIN u THEN u.speaker ELSE 0)
                 /\ e.is_final = (IF "is_final" \in DOMAIN f.obj.data
                                  THEN f.obj.data.is_final ELSE FALSE)
                 /\ e.timestamp = (IF "start" \in DOMAIN u THEN <<u.start>> ELSE <<>>)
                 /\ e.end_time = (IF "end" \in DOMAIN u THEN <<u["end"]>> ELSE <<>>)
                 /\ f = FrameHe =>
                        /\ e.speaker = 0 /\ e.text = <<"h", "e">> /\ e.is_final = FALSE
                        /\ e.timestamp = <<1>> /\ e.end_time = <<4>>]_vars

\* The speaker_name on_message would put on an event of speaker 0 of client c
\* in the current state.
AppliedLabel(c) ==
    IF c \in DOMAIN active_sessions THEN DisplayName(active_sessions[c], 0) ELSE None

\* C21: a start_stream of a client that has an open handle whose thread is
\* reading frames does not change the label applied to the events of that
\* handle.
C21_RestartKeepsLabelOfOpenHandle ==
    [][\A c \in Clients :
         (/\ StartStep(c)
          /\ \E a \in HandlesOf(c) :
                 Open(a) /\ threads[a].pc \in {"reading", "on_message"}) =>
             AppliedLabel(c)' = AppliedLabel(c)]_vars

\* A step in which on_close runs in the thread of attempt a.
CloseStep(a) ==
    /\ threads[a].pc \in {"run_forever", "reading", "peer_closed"}
    /\ threads'[a].pc \in {"done_closed", "done_peer_closed"}

\* C22: the on_close of a handle leaves the registry as it is when the
\* client's entry does not reference that handle.
C22_CloseRemovesOnlyOwnHandle ==
    [][\A a \in Attempts :
         LET c == threads[a].client IN
         (/\ CloseStep(a)
          /\ c \in DOMAIN active_sessions
          /\ active_sessions[c].ws # a) =>
             active_sessions' = active_sessions]_vars

\* C23: once a client has disconnected, no step gives it a registry entry it
\* did not have, and no step opens an upstream connection for it.
C23_NothingCreatedAfterDisconnect ==
    [][\A c \in Clients :
         last_event[c] = "disconnected" =>
             /\ c \in DOMAIN active_sessions' => c \in DOMAIN active_sessions
             /\ \A a \in HandlesOf(c) : Open(a)' => Open(a)]_vars

\* The client of attempt a is and stays Streaming on that handle: it has
\* neither stopped nor disconnected, and the connection is open before and
\* after the step.
StaysStreaming(a) ==
    /\ last_event[threads[a].client] = "started"
    /\ last_event'[threads[a].client] = "started"
    /\ Open(a) /\ Open(a)'

\* C24: while the client stays Streaming, on_message emits exactly one
\* transcript event for every frame that survives suppression; and every
\* transcript event is emitted by the on_message call of the latest frame read
\* on its handle, once, so events leave in the order the frames arrived.
C24_OrderedExactlyOnce ==
    [][\A a \in Attempts :
         /\ (HandledStep(a) /\ Forwarded(threads'[a].held) /\ StaysStreaming(a)) =>
                /\ emitted'[a].transcript = emitted[a].transcript + 1
                /\ emitted'[a].last.type = "transcript"
                /\ emitted'[a].last.seq = threads'[a].nrecv
         /\ TranscriptStep(a) =>
                /\ HandledStep(a)
                /\ emitted'[a].transcript = emitted[a].transcript + 1
                /\ emitted'[a].last.seq = threads'[a].nrecv
                /\ emitted[a].last.type = "transcript" =>
                       emitted'[a].last.seq > emitted[a].last.seq]_vars

\* The state InitStreaming starts from, as the server reaches it from Init.
C24_StreamingReached ==
    /\ active_sessions = ("c1" :> [config |-> Some(Config(<<>>)), ws |-> 1])
    /\ threads[1] = [UnusedThread EXCEPT !.client = "c1", !.pc = "reading", !.status = 200]
    /\ ws[1] = [created |-> TRUE, keep_running |-> TRUE, sock |-> "connected"]
    /\ \A a \in Attempts \ {1} : threads[a] = UnusedThread /\ ws[a] = NoSocketApp
    /\ outbox["c1"] = [stream_started |-> 1, stream_stopped |-> 0, error |-> 0]
    /\ emitted = [a \in Attempts |-> NothingEmitted]
    /\ last_event = [c \in Clients |-> IF c = "c1" THEN "started" ELSE "absent"]
    /\ sent = [a \in Attempts |-> NothingSent]
    /\ audio_calls = [c \in Clients |-> NoAudioCalls]

====
